---- MODULE Spec2Model ----
(***************************************************************************)
(* RatingNet: an encrypted rating ledger (contract RatingNet, embedded in  *)
(* src/backend/hardhat.config.ts lines 74-155) and the client flow that    *)
(* reads an average back (src/frontend/src/ui/App.tsx).                    *)
(*                                                                         *)
(* A ciphertext handle is modelled as the term that produced it: the FHEVM *)
(* executor names the result of an operation by a hash of the operation    *)
(* and its operand handles, so equal terms are equal handles and a handle  *)
(* never changes its value.  The cleartext of a handle is computed from    *)
(* the term by Clear, with the wrap-around of its bit width.               *)
(***************************************************************************)
EXTENDS Integers, Sequences, FiniteSets, TLC

(***************************************************************************)
(* Bounds of the model.                                                    *)
(***************************************************************************)
\* Successful submissions in one run of the ledger.
MaxSubmits == 2
\* Distinct (average handle, caller) permissions granted in one run.
MaxGrants == 2
\* The clock runs from 0 to MaxTime.
MaxTime == 2
\* Validity of a signed grant, in clock units.
DurationDays == 1

(***************************************************************************)
(* Program constants.                                                      *)
(***************************************************************************)
\* uint32 private constant SCALE = 100;
SCALE == 100
\* euint8 one = FHE.asEuint8(1);
ONE == 1
\* euint8 five = FHE.asEuint8(5);
FIVE == 5
\* Bit widths of euint8 / externalEuint8 and of euint32 / uint32.
W8 == 8
W32 == 32

(***************************************************************************)
(* 32-bit unsigned integers.  A uint32 is the pair <<hi, lo>> of its two   *)
(* 16-bit limbs (value hi * 2^16 + lo), so that values up to 2^32 - 1 and  *)
(* their wrap-around are computed exactly.  A pair whose hi limb exceeds   *)
(* 16 bits is a wider natural number, used for exact (unwrapped) results.  *)
(***************************************************************************)
LimbBase == 2 ^ 16

\* The uint32 of a small natural number n (n < 2^31).
U32(n) == <<(n \div LimbBase) % LimbBase, n % LimbBase>>

\* The natural number of a pair whose value is below 2^31.
ToInt(x) == x[1] * LimbBase + x[2]

\* Truncation to the low `w` bits, w being 8 or 32.
Wrap(x, w) == IF w = W8 THEN <<0, x[2] % 256>> ELSE <<x[1] % LimbBase, x[2]>>

Leq32(x, y) == x[1] < y[1] \/ (x[1] = y[1] /\ x[2] <= y[2])

\* Exact sum of two pairs.
BigAdd(x, y) ==
  LET l == x[2] + y[2]
  IN  <<x[1] + y[1] + (l \div LimbBase), l % LimbBase>>

\* Exact difference x - y of two pairs, x >= y.
BigSub(x, y) ==
  LET l == x[2] - y[2]
  IN  IF l < 0 THEN <<x[1] - y[1] - 1, l + LimbBase>> ELSE <<x[1] - y[1], l>>

\* Exact product of two 16-bit limbs, as the pair <<carry, low limb>>.
MulLimb(a, b) ==
  LET p == a * (b \div 256)
      q == a * (b % 256)
      m == (p % 256) * 256 + q
  IN  <<(p \div 256) + (m \div LimbBase), m % LimbBase>>

\* Exact product of pair x (below 2^32) and a 16-bit number m.
BigMulLimb(x, m) ==
  LET l == MulLimb(x[2], m)
      h == MulLimb(x[1], m)
  IN  <<h[1] * LimbBase + h[2] + l[1], l[2]>>

\* Wrapping uint32 addition and multiplication.
Add32(x, y) == Wrap(BigAdd(x, y), W32)

Mul32(x, y) ==
  LET l == MulLimb(x[2], y[2])
  IN  <<(l[1] + MulLimb(x[1], y[2])[2] + MulLimb(x[2], y[1])[2]) % LimbBase, l[2]>>

\* Bit i of pair x (bit 16 and above come from the hi limb).
BitOf(x, i) == IF i >= 16 THEN (x[1] \div (2 ^ (i - 16))) % 2 ELSE (x[2] \div (2 ^ i)) % 2

WithBit(q, i) == IF i >= 16 THEN <<q[1] + 2 ^ (i - 16), q[2]>> ELSE <<q[1], q[2] + 2 ^ i>>

\* Restoring long division, from bit i down: quotient so far q, remainder r.
RECURSIVE DivLoop(_, _, _, _, _)
DivLoop(x, c, i, q, r) ==
  IF i < 0 THEN q
  ELSE LET r2 == BigAdd(BigAdd(r, r), <<0, BitOf(x, i)>>)
       IN  IF Leq32(c, r2)
             THEN DivLoop(x, c, i - 1, WithBit(q, i), BigSub(r2, c))
             ELSE DivLoop(x, c, i - 1, q, r2)

\* floor(x / c) for a pair x below 2^46 and a uint32 c > 0.
BigDiv(x, c) == DivLoop(x, c, 45, <<0, 0>>, <<0, 0>>)

\* uint32 division, rounding toward zero.
Div32(x, c) == Wrap(BigDiv(x, c), W32)

Subjects == {"subjA", "subjB"}
Principals == {"alice", "bob"}
\* address(this): the identity FHE.allowThis grants to.
Engine == "RatingNet"
\* The external ciphertexts (encrypted inputs) that exist in one run.
Inputs == {1, 2}
\* The cleartexts behind them (input.add8 takes any 8-bit value): below
\* the range and inside it, or above it and the largest 8-bit value.
ScoreChoices == {<<0, 3>>, <<6, 255>>}

\* createEncryptedInput(contractAddress, signer.address): an external
\* ciphertext and its proof are bound to the user that produced them.
Owner(i) == IF i = 1 THEN "alice" ELSE "bob"

(***************************************************************************)
(* Ciphertext arithmetic layer (FHE library, external).                    *)
(***************************************************************************)
\* A handle: the operation, its operand handles, its scalar operand (a
\* uint32: the constant encrypted, the clear divisor, or the number of the
\* external ciphertext) and the bit width of the value.
Handle(op, args, k, w) == [op |-> op, args |-> args, k |-> k, w |-> w]

\* euint32.wrap(0): the value of a storage slot never written.
Nil == Handle("nil", <<>>, U32(0), 0)

\* The sum handle left by an earlier history of the ledger, of cleartext v.
Accumulated(v) == Handle("acc", <<>>, v, W32)

FHE_isInitialized(h) == h # Nil

FHE_asEuint8(v) == Handle("triv", <<>>, Wrap(U32(v), W8), W8)

FHE_asEuint32(v) == Handle("triv", <<>>, U32(v), W32)

\* FHE.fromExternal of a ciphertext whose proof verified.
FHE_fromExternal(cipherScore) == Handle("in", <<>>, U32(cipherScore), W8)

FHE_max(a, b) == Handle("max", <<a, b>>, U32(0), a.w)

FHE_min(a, b) == Handle("min", <<a, b>>, U32(0), a.w)

\* FHE.asEuint32(euint8): width cast.
FHE_cast32(a) == Handle("cast", <<a>>, U32(0), W32)

\* An uninitialized operand is replaced by an encrypted zero.
FHE_add(a, b) ==
  LET l == IF FHE_isInitialized(a) THEN a ELSE FHE_asEuint32(0)
      r == IF FHE_isInitialized(b) THEN b ELSE FHE_asEuint32(0)
  IN  Handle("add", <<l, r>>, U32(0), W32)

FHE_mul(a, b) ==
  LET l == IF FHE_isInitialized(a) THEN a ELSE FHE_asEuint32(0)
      r == IF FHE_isInitialized(b) THEN b ELSE FHE_asEuint32(0)
  IN  Handle("mul", <<l, r>>, U32(0), W32)

\* Division of a ciphertext by a clear uint32 scalar c.
FHE_div(a, c) ==
  LET l == IF FHE_isInitialized(a) THEN a ELSE FHE_asEuint32(0)
  IN  Handle("div", <<l>>, c, W32)

MaxOf(x, y) == IF Leq32(y, x) THEN x ELSE y
MinOf(x, y) == IF Leq32(x, y) THEN x ELSE y

\* The cleartext (a uint32) behind handle h when the external ciphertexts
\* hold the cleartexts ext.
RECURSIVE ClearWith(_, _)
ClearWith(h, ext) ==
  CASE h.op = "nil"  -> U32(0)
    [] h.op = "triv" -> h.k
    [] h.op = "acc"  -> h.k
    [] h.op = "in"   -> Wrap(U32(ext[ToInt(h.k)]), h.w)
    [] h.op = "max"  -> MaxOf(ClearWith(h.args[1], ext), ClearWith(h.args[2], ext))
    [] h.op = "min"  -> MinOf(ClearWith(h.args[1], ext), ClearWith(h.args[2], ext))
    [] h.op = "cast" -> Wrap(ClearWith(h.args[1], ext), h.w)
    [] h.op = "add"  -> Add32(ClearWith(h.args[1], ext), ClearWith(h.args[2], ext))
    [] h.op = "mul"  -> Mul32(ClearWith(h.args[1], ext), ClearWith(h.args[2], ext))
    [] h.op = "div"  -> Div32(ClearWith(h.args[1], ext), h.k)

(***************************************************************************)
(* State.                                                                  *)
(***************************************************************************)
VARIABLES
  extValue,        \* external ciphertext -> the cleartext its contributor encrypted
  statsBySubject,  \* mapping(address => Stats) _statsBySubject
  acl,             \* persistent ACL relation: set of <<handle, principal>>
  last,            \* the last contract call: what was called and what it returned
  submitted,       \* per subject, the external ciphertexts folded in so far
  avgSeen,         \* per subject, the cleartext of the average first returned
                   \* since the last submission to the subject
  now,             \* the clock
  storage,         \* Signature Cache of the App: (user, contract-set) -> cached grant
  flow,            \* the getAverage invocations of the App
  app,             \* React state of the App: status, avgHandle, avgClear
  accepted         \* the grants the decryption oracle has accepted so far

ledgerVars == <<statsBySubject, acl, submitted, avgSeen>>
clientVars == <<now, storage, flow, app, accepted>>
vars == <<extValue, statsBySubject, acl, last, submitted, avgSeen,
          now, storage, flow, app, accepted>>

Clear(h) == ClearWith(h, extValue)

\* struct Stats { euint32 sum; uint32 count; } of a subject never written.
EmptyStats == [sum |-> Nil, count |-> U32(0)]

\* A contract call as its caller sees it: err is "" when the transaction
\* succeeded, ret the handle and n the number it returned.
Call(op, sender, subject, input, err, ret, n) ==
  [op |-> op, sender |-> sender, subject |-> subject, input |-> input,
   err |-> err, ret |-> ret, n |-> n]

NoCall == Call("none", "none", "none", 0, "", Nil, U32(0))

\* No cleartext.
NoClear == <<>>

\* A Grant: the user, the scoped contracts and the validity window.
Grant(user, contracts, start, duration) ==
  [user |-> user, contracts |-> contracts, start |-> start, duration |-> duration]

NoGrant == Grant("none", {}, 0, 0)

\* The keys of the Signature Cache: (user, contract-set).  The contract the
\* App talks to changes with the deployment it is pointed at.
ContractSets == {{Engine}, {"RatingNetV0"}}
CacheKey(user, contracts) == <<user, contracts>>
CacheKeys == {CacheKey(u, c) : u \in Principals, c \in ContractSets}

\* The signer of the App and its getAverage invocations.
AppUser == "alice"
Flows == {"f1", "f2"}

\* A decrypt request that was refused: the handle, the grant and the error.
Refusal(handle, sig, err) == [handle |-> handle, sig |-> sig, err |-> err]
NoRefusal == Refusal(Nil, NoGrant, "")

\* One invocation: where it stands, the subject asked for, the handle it
\* fetched, the grant it holds, how its last run ended and what its last
\* decrypt request returned; and, as history, the last request of the
\* caller that was refused.
IdleFlow == [pc |-> "idle", target |-> "none", handle |-> Nil, sig |-> NoGrant,
             outcome |-> "", res |-> NoClear, refused |-> NoRefusal]

InitLedger ==
  /\ statsBySubject = [s \in Subjects |-> EmptyStats]
  /\ acl = {}
  /\ last = NoCall
  /\ submitted = [s \in Subjects |-> <<>>]
  /\ avgSeen = [s \in Subjects |-> NoClear]

InitClient ==
  /\ now = 0
  /\ storage = [k \in CacheKeys |-> NoGrant]
  /\ flow = [f \in Flows |-> IdleFlow]
  /\ app = [status |-> "", avgHandle |-> Nil, avgClear |-> NoClear]
  /\ accepted = {}

Init ==
  /\ extValue \in ScoreChoices
  /\ InitLedger
  /\ InitClient

(***************************************************************************)
(* Access control list.                                                    *)
(***************************************************************************)
\* FHE.allow(handle, account)
FHE_allow(a, h, account) == a \cup {<<h, account>>}

\* FHE.allowThis(handle)
FHE_allowThis(a, h) == FHE_allow(a, h, Engine)

\* The permissions held by users (not by the engine itself).
UserGrants(a) == {e \in a : e[2] # Engine}

(***************************************************************************)
(* Aggregation engine: contract RatingNet.                                 *)
(***************************************************************************)
\* FHE.fromExternal(cipherScore, inputProof) verifies the proof against
\* the caller; it reverts when the proof does not verify.
ProofVerifies(sender, cipherScore) == sender = Owner(cipherScore)

\* The clamp without its lower bound, and without its upper bound.
ClampScoreNoFloor(score) == FHE_min(score, FHE_asEuint8(FIVE))

ClampScoreNoCeiling(score) == FHE_max(score, FHE_asEuint8(ONE))

\* euint8 clamped = FHE.min(FHE.max(score, one), five);
ClampScore(score) == FHE_min(FHE_max(score, FHE_asEuint8(ONE)), FHE_asEuint8(FIVE))

\* A running sum that weighs what it already holds twice.
AccumulateDoubling(sum, clamped) == FHE_add(FHE_add(sum, sum), FHE_cast32(clamped))

\* The new contribution stored over the running sum instead of added to it.
AccumulateOverwrite(sum, clamped) == FHE_add(Nil, FHE_cast32(clamped))

\* _statsBySubject[subject].sum = FHE.add(_statsBySubject[subject].sum, clamped32);
Accumulate(sum, clamped) == FHE_add(sum, FHE_cast32(clamped))

\* The count left as it was.
IncrementCountSkipped(count) == count

\* A count that stops at its largest value, and one that steps down.
IncrementCountSaturating(count) ==
  IF count = <<LimbBase - 1, LimbBase - 1>> THEN count ELSE Add32(count, U32(1))

IncrementCountDown(count) == Add32(count, <<LimbBase - 1, LimbBase - 1>>)

\* unchecked { _statsBySubject[subject].count += 1; }
IncrementCount(count) == Add32(count, U32(1))

\* A submission counted on every subject (one counter for the whole ledger).
StatsAfterSubmitSharedCount(stats, subject, cipherScore) ==
  LET score   == FHE_fromExternal(cipherScore)
      clamped == ClampScore(score)
  IN  [s \in DOMAIN stats |->
        [sum   |-> IF s = subject THEN Accumulate(stats[s].sum, clamped) ELSE stats[s].sum,
         count |-> IncrementCount(stats[s].count)]]

\* The Stats of `subject` after submitEncryptedScore of cipherScore.
StatsAfterSubmit(stats, subject, cipherScore) ==
  LET score   == FHE_fromExternal(cipherScore)
      clamped == ClampScore(score)
  IN  [stats EXCEPT ![subject] = [sum   |-> Accumulate(stats[subject].sum, clamped),
                                  count |-> IncrementCount(stats[subject].count)]]

\* A submit that grants nothing on the new sum handle, and one that lets
\* every principal holding a permission decrypt it too.
AclAfterSubmitNone(a, stats, subject) == a

AclAfterSubmitInherits(a, stats, subject) ==
  FHE_allowThis(a, stats[subject].sum)
    \cup {<<stats[subject].sum, e[2]>> : e \in a}

\* A submit that keeps the engine's permission on the newest handle only.
AclAfterSubmitLatestOnly(a, stats, subject) ==
  {e \in a : e[2] # Engine} \cup {<<stats[subject].sum, Engine>>}

\* FHE.allowThis(_statsBySubject[subject].sum);
AclAfterSubmit(a, stats, subject) == FHE_allowThis(a, stats[subject].sum)

TotalSubmitted == Len(submitted["subjA"]) + Len(submitted["subjB"])

\* submitEncryptedScore that runs to its end.
submitEncryptedScore(sender, subject, cipherScore) ==
  /\ TotalSubmitted < MaxSubmits
  /\ ProofVerifies(sender, cipherScore)
  /\ statsBySubject' = StatsAfterSubmit(statsBySubject, subject, cipherScore)
  /\ acl' = AclAfterSubmit(acl, statsBySubject', subject)
  /\ last' = Call("submit", sender, subject, cipherScore, "", Nil, U32(0))
  /\ submitted' = [submitted EXCEPT ![subject] = Append(@, cipherScore)]
  /\ avgSeen' = [avgSeen EXCEPT ![subject] = NoClear]
  /\ UNCHANGED <<extValue, clientVars>>

\* A failed transaction whose writes stay.
RevertedKeepsWrites(before, written) == written

\* What a reverted transaction leaves in a piece of state that held
\* `before` and in which it had written `written`: the EVM rolls every
\* write back.
Reverted(before, written) == before

\* submitEncryptedScore that reverts: the proof does not verify, or it does
\* and a later step of the transaction fails (fault) after the writes made
\* so far.
submitReverted(sender, subject, cipherScore, fault) ==
  /\ fault = ProofVerifies(sender, cipherScore)
  /\ LET stats == StatsAfterSubmit(statsBySubject, subject, cipherScore)
     IN  /\ statsBySubject' = Reverted(statsBySubject, stats)
         /\ acl' = Reverted(acl, AclAfterSubmit(acl, stats, subject))
  /\ last' = Call("submit", sender, subject, 0,
                  IF fault THEN "Reverted" ELSE "InvalidInputProof", Nil, U32(0))
  /\ UNCHANGED <<extValue, submitted, avgSeen, clientVars>>

\* The handle getEncryptedAverage computes from Stats s.
AverageHandle(s) ==
  IF s.count = U32(0)
    THEN FHE_asEuint32(0)
    ELSE FHE_div(FHE_mul(s.sum, FHE_asEuint32(SCALE)), s.count)

\* An average that renews the engine's permission only.
AverageGrantsEngineOnly(a, avg, sender) == FHE_allowThis(a, avg)

\* FHE.allow(avg, msg.sender); FHE.allowThis(avg);
AverageGrants(a, avg, sender) == FHE_allowThis(FHE_allow(a, avg, sender), avg)

\* An average that stores an encrypted zero as the sum of a subject never
\* written.
StatsAfterAverageInitializing(stats, subject) ==
  IF FHE_isInitialized(stats[subject].sum)
    THEN stats
    ELSE [stats EXCEPT ![subject].sum = FHE_asEuint32(0)]

\* An average that counts its own call as a rating.
StatsAfterAverageCounting(stats, subject) ==
  [stats EXCEPT ![subject].count = IncrementCount(@)]

\* The Stats getEncryptedAverage leaves: it writes none.
StatsAfterAverage(stats, subject) == stats

\* The transaction getEncryptedAverage(subject) sent by `sender`.
AverageTx(sender, subject) ==
  LET avg == AverageHandle(statsBySubject[subject])
  IN  /\ (<<avg, sender>> \in acl) \/ Cardinality(UserGrants(acl)) < MaxGrants
      /\ statsBySubject' = StatsAfterAverage(statsBySubject, subject)
      /\ acl' = AverageGrants(acl, avg, sender)
      /\ last' = Call("average", sender, subject, 0, "", avg, U32(0))
      /\ avgSeen' = [avgSeen EXCEPT
                       ![subject] = IF @ = NoClear THEN Clear(avg) ELSE @]
      /\ UNCHANGED <<extValue, submitted>>

getEncryptedAverage(sender, subject) ==
  /\ AverageTx(sender, subject)
  /\ UNCHANGED clientVars

\* A sum query that lets its caller decrypt what it returns.
getEncryptedSumGranting(subject) ==
  /\ last' = Call("sum", "any", subject, 0, "", statsBySubject[subject].sum, U32(0))
  /\ \E p \in Principals : acl' = FHE_allow(acl, statsBySubject[subject].sum, p)
  /\ UNCHANGED <<extValue, statsBySubject, submitted, avgSeen, clientVars>>

\* The two view functions read msg.sender nowhere: any caller gets the same.
getEncryptedSum(subject) ==
  /\ last' = Call("sum", "any", subject, 0, "", statsBySubject[subject].sum, U32(0))
  /\ UNCHANGED <<extValue, ledgerVars, clientVars>>

getCount(subject) ==
  /\ last' = Call("count", "any", subject, 0, "", Nil, statsBySubject[subject].count)
  /\ UNCHANGED <<extValue, ledgerVars, clientVars>>

Next ==
  \/ \E p \in Principals, s \in Subjects, i \in Inputs : submitEncryptedScore(p, s, i)
  \/ \E p \in Principals, s \in Subjects, i \in Inputs, f \in BOOLEAN :
       submitReverted(p, s, i, f)
  \/ \E p \in Principals, s \in Subjects : getEncryptedAverage(p, s)
  \/ \E s \in Subjects : getEncryptedSum(s)
  \/ \E s \in Subjects : getCount(s)

Spec == Init /\ [][Next]_vars

(***************************************************************************)
(* The ledger driven by every 8-bit score: the first external ciphertext   *)
(* holds any value of 0 .. 255.                                            *)
(***************************************************************************)
InitScores ==
  /\ extValue \in {<<s, 3>> : s \in 0 .. 255}
  /\ InitLedger
  /\ InitClient

NextScores ==
  \E p \in Principals, s \in Subjects, i \in Inputs : submitEncryptedScore(p, s, i)

SpecScores == InitScores /\ [][NextScores]_vars

(***************************************************************************)
(* The ledger late in its life.  A subject that received n submissions of  *)
(* clamped total v holds count n and a sum handle of cleartext v; such a   *)
(* state is what n calls of submitEncryptedScore leave, and is written     *)
(* down here instead of being run through.                                 *)
(***************************************************************************)
\* After 8589934 submissions of score 5: sum 42949670, and sum * SCALE is
\* 4294967000, the last such product below 2^32.
LargeStats ==
  { [sum |-> Accumulated(U32(42949670)), count |-> U32(8589934)] }

InitLarge ==
  /\ extValue \in ScoreChoices
  /\ \E st \in LargeStats :
       /\ statsBySubject = [s \in Subjects |-> IF s = "subjA" THEN st ELSE EmptyStats]
       /\ acl = {<<st.sum, Engine>>}
  /\ last = NoCall
  /\ submitted = [s \in Subjects |-> <<>>]
  /\ avgSeen = [s \in Subjects |-> NoClear]
  /\ InitClient

NextLarge ==
  \/ \E p \in Principals, i \in Inputs : submitEncryptedScore(p, "subjA", i)
  \/ \E p \in Principals, s \in Subjects : getEncryptedAverage(p, s)
  \/ \E s \in Subjects : getEncryptedSum(s)
  \/ \E s \in Subjects : getCount(s)

SpecLarge == InitLarge /\ [][NextLarge]_vars

(***************************************************************************)
(* One subject rated by two contributors whose scores are equal, differ,   *)
(* or lie outside the range.                                               *)
(***************************************************************************)
PairedScores == {<<3, 3>>, <<1, 5>>, <<0, 255>>}

InitPaired ==
  /\ extValue \in PairedScores
  /\ InitLedger
  /\ InitClient

NextPaired ==
  \/ \E p \in Principals, i \in Inputs : submitEncryptedScore(p, "subjA", i)
  \/ \E p \in Principals : getEncryptedAverage(p, "subjA")

SpecPaired == InitPaired /\ [][NextPaired]_vars

(***************************************************************************)
(* The ledger at the end of the counter's range: subjA has received        *)
(* 2^32 - 1 submissions of score 5, whose total is 2^32 - 5 modulo 2^32.   *)
(***************************************************************************)
\* type(uint32).max
MaxCount == <<LimbBase - 1, LimbBase - 1>>

FullStats == [sum |-> Accumulated(<<LimbBase - 1, LimbBase - 5>>), count |-> MaxCount]

InitWrap ==
  /\ extValue \in ScoreChoices
  /\ statsBySubject = [s \in Subjects |-> IF s = "subjA" THEN FullStats ELSE EmptyStats]
  /\ acl = {<<FullStats.sum, Engine>>}
  /\ last = NoCall
  /\ submitted = [s \in Subjects |-> <<>>]
  /\ avgSeen = [s \in Subjects |-> NoClear]
  /\ InitClient

NextWrap ==
  \/ \E p \in Principals, s \in Subjects, i \in Inputs : submitEncryptedScore(p, s, i)
  \/ \E s \in Subjects : getEncryptedAverage("alice", s)
  \/ \E s \in Subjects : getEncryptedSum(s)
  \/ \E s \in Subjects : getCount(s)

SpecWrap == InitWrap /\ [][NextWrap]_vars

(***************************************************************************)
(* Decryption oracle (relayer) and Signature Cache.                        *)
(***************************************************************************)
\* Granted -> Expired: now > startTimestamp + durationDays.
Expired(g, t) == t > g.start + g.duration

\* An oracle that consults no ACL, and one that checks no validity window.
UserDecryptNoAcl(handles, g, a, t) ==
  IF Expired(g, t)
    THEN [err |-> "GrantExpired", clear |-> [h \in {} |-> NoClear]]
    ELSE [err |-> "", clear |-> [h \in handles |-> Clear(h)]]

UserDecryptNoExpiry(handles, g, a, t) ==
  IF \E h \in handles : <<h, g.user>> \notin a
    THEN [err |-> "Unauthorized", clear |-> [h \in {} |-> NoClear]]
    ELSE [err |-> "", clear |-> [h \in handles |-> Clear(h)]]

\* decrypt(handles, grant) as the oracle answers it at time t against the
\* ACL a: the error, or "" and the cleartext of each handle.
UserDecrypt(handles, g, a, t) ==
  IF Expired(g, t)
    THEN [err |-> "GrantExpired", clear |-> [h \in {} |-> NoClear]]
  ELSE IF \E h \in handles : <<h, g.user>> \notin a
    THEN [err |-> "Unauthorized", clear |-> [h \in {} |-> NoClear]]
  ELSE [err |-> "", clear |-> [h \in handles |-> Clear(h)]]

\* A lookup that does not look at the validity window, and one that takes
\* whatever grant the user has cached, for whichever contracts.
CachedGrantIgnoresExpiry(store, user, contracts, t) == store[CacheKey(user, contracts)]

CachedGrantAnyContracts(store, user, contracts, t) ==
  LET usable == {c \in ContractSets : store[CacheKey(user, c)] # NoGrant
                                        /\ ~Expired(store[CacheKey(user, c)], t)}
  IN  IF usable = {} THEN NoGrant
      ELSE store[CacheKey(user, CHOOSE c \in usable : TRUE)]

\* Cache lookup: the grant cached under (user, contracts) when it is
\* unexpired.
CachedGrant(store, user, contracts, t) ==
  LET g == store[CacheKey(user, contracts)]
  IN  IF g # NoGrant /\ ~Expired(g, t) THEN g ELSE NoGrant

(***************************************************************************)
(* Client: getAverage of the App.                                          *)
(***************************************************************************)
\* Step 1: the transaction getEncryptedAverage(target), waited for; the
\* App then announces step 2.
GA_Grant(f, target) ==
  /\ flow[f].pc = "idle"
  /\ AverageTx(AppUser, target)
  /\ flow' = [flow EXCEPT ![f] = [IdleFlow EXCEPT !.pc = "granted", !.target = target,
                                                  !.refused = flow[f].refused]]
  /\ app' = [app EXCEPT !.status = "Retrieving encrypted average..."]
  /\ UNCHANGED <<now, storage, accepted>>

\* Step 1 when the transaction is not confirmed (the wallet refuses to send
\* it, or tx.wait() throws): the catch ends the invocation, and the ledger
\* has not been written.
GA_GrantRejected(f, target) ==
  /\ flow[f].pc = "idle"
  /\ flow' = [flow EXCEPT ![f] = [IdleFlow EXCEPT !.target = target,
                                                  !.outcome = "TxFailed",
                                                  !.refused = flow[f].refused]]
  /\ app' = [app EXCEPT !.status = "Failed to retrieve average: TxFailed"]
  /\ UNCHANGED <<extValue, ledgerVars, last, now, storage, accepted>>

\* Step 2: the handle, fetched by a static call: it computes on the
\* current state and writes nothing; the App then announces step 3.
GA_Fetch(f) ==
  /\ flow[f].pc = "granted"
  /\ LET handle == AverageHandle(statsBySubject[flow[f].target])
     IN  /\ flow' = [flow EXCEPT ![f].pc = "fetched", ![f].handle = handle]
         /\ app' = [app EXCEPT !.status = "Requesting signature for decryption...",
                               !.avgHandle = handle]
  /\ UNCHANGED <<extValue, ledgerVars, last, now, storage, accepted>>

\* Step 3a: FhevmDecryptionSignature.loadOrSign, its lookup: the cached
\* grant when there is a usable one; otherwise a grant starting now is put
\* to the user for signature.
GA_LoadOrSign(f) ==
  /\ flow[f].pc = "fetched"
  /\ LET cached == CachedGrant(storage, AppUser, {Engine}, now)
     IN  IF cached # NoGrant
           THEN /\ flow' = [flow EXCEPT ![f].pc = "signed", ![f].sig = cached]
                /\ app' = [app EXCEPT !.status = "Decrypting average rating..."]
           ELSE /\ flow' = [flow EXCEPT ![f].pc = "signing",
                                        ![f].sig = Grant(AppUser, {Engine}, now, DurationDays)]
                /\ app' = app
  /\ UNCHANGED <<extValue, ledgerVars, last, now, storage, accepted>>

\* A save that keeps the entry already under the key, and one that writes
\* the fields one by one and is overtaken between two of them.
SaveGrantKeepsFirst(store, g) ==
  IF store[CacheKey(g.user, g.contracts)] = NoGrant
    THEN [store EXCEPT ![CacheKey(g.user, g.contracts)] = g]
    ELSE store

SaveGrantFieldwise(store, g) ==
  LET old == store[CacheKey(g.user, g.contracts)]
  IN  [store EXCEPT ![CacheKey(g.user, g.contracts)] =
         IF old = NoGrant THEN g ELSE [g EXCEPT !.start = old.start]]

\* The cache after grant g is saved: one write of the whole entry under
\* the grant's key.
SaveGrant(store, g) == [store EXCEPT ![CacheKey(g.user, g.contracts)] = g]

\* A Signing cycle whose null result is not looked at: the invocation goes
\* on to the decrypt request without a grant.
GA_SignIgnoresDecline(f, approve) ==
  /\ flow[f].pc = "signing"
  /\ IF approve
       THEN /\ storage' = SaveGrant(storage, flow[f].sig)
            /\ flow' = [flow EXCEPT ![f].pc = "signed"]
       ELSE /\ flow' = [flow EXCEPT ![f].pc = "signed", ![f].sig = NoGrant]
            /\ UNCHANGED storage
  /\ app' = [app EXCEPT !.status = "Decrypting average rating..."]
  /\ UNCHANGED <<extValue, ledgerVars, last, now, accepted>>

\* A Signing cycle that saves the grant before the user has answered.
GA_SignSavesFirst(f, approve) ==
  /\ flow[f].pc = "signing"
  /\ storage' = SaveGrant(storage, flow[f].sig)
  /\ IF approve
       THEN /\ flow' = [flow EXCEPT ![f].pc = "signed"]
            /\ app' = [app EXCEPT !.status = "Decrypting average rating..."]
       ELSE /\ flow' = [flow EXCEPT ![f].pc = "idle", ![f].sig = NoGrant,
                                    ![f].outcome = "SignatureDeclined"]
            /\ app' = [app EXCEPT !.status = "Signature creation failed. Please try again."]
  /\ UNCHANGED <<extValue, ledgerVars, last, now, accepted>>

\* Step 3a, the Signing cycle: the user approves, and the signed grant is
\* saved and returned; or declines, and loadOrSign returns null.
GA_Sign(f, approve) ==
  /\ flow[f].pc = "signing"
  /\ IF approve
       THEN /\ storage' = SaveGrant(storage, flow[f].sig)
            /\ flow' = [flow EXCEPT ![f].pc = "signed"]
            /\ app' = [app EXCEPT !.status = "Decrypting average rating..."]
       ELSE /\ flow' = [flow EXCEPT ![f].pc = "idle", ![f].sig = NoGrant,
                                    ![f].outcome = "SignatureDeclined"]
            /\ app' = [app EXCEPT !.status = "Signature creation failed. Please try again."]
            /\ UNCHANGED storage
  /\ UNCHANGED <<extValue, ledgerVars, last, now, accepted>>

\* A failed request that is sent again instead of ending the invocation.
GA_DecryptRetries(f) ==
  /\ flow[f].pc = "signed"
  /\ LET r == UserDecrypt({flow[f].handle}, flow[f].sig, acl, now)
     IN  IF r.err = ""
           THEN /\ flow' = [flow EXCEPT ![f].pc = "idle", ![f].outcome = "ok",
                                        ![f].res = r.clear[flow[f].handle]]
                /\ app' = [app EXCEPT !.status = "Average rating decrypted successfully!",
                                      !.avgClear = r.clear[flow[f].handle]]
                /\ accepted' = accepted \cup {flow[f].sig}
           ELSE /\ flow' = [flow EXCEPT ![f].outcome = r.err, ![f].res = NoClear,
                                        ![f].refused = Refusal(flow[f].handle, flow[f].sig, r.err)]
                /\ app' = [app EXCEPT !.status = "Failed to retrieve average: " \o r.err]
                /\ UNCHANGED accepted
  /\ UNCHANGED <<extValue, ledgerVars, last, now, storage>>

\* Step 3b: fhevm.instance.userDecrypt, and the catch around the flow.
GA_Decrypt(f) ==
  /\ flow[f].pc = "signed"
  /\ LET r == UserDecrypt({flow[f].handle}, flow[f].sig, acl, now)
     IN  IF r.err = ""
           THEN /\ flow' = [flow EXCEPT ![f].pc = "idle", ![f].outcome = "ok",
                                        ![f].res = r.clear[flow[f].handle]]
                /\ app' = [app EXCEPT !.status = "Average rating decrypted successfully!",
                                      !.avgClear = r.clear[flow[f].handle]]
                /\ accepted' = accepted \cup {flow[f].sig}
           ELSE /\ flow' = [flow EXCEPT ![f].pc = "idle", ![f].outcome = r.err,
                                        ![f].res = NoClear,
                                        ![f].refused = Refusal(flow[f].handle, flow[f].sig, r.err)]
                /\ app' = [app EXCEPT !.status = "Failed to retrieve average: " \o r.err]
                /\ UNCHANGED accepted
  /\ UNCHANGED <<extValue, ledgerVars, last, now, storage>>

Tick ==
  /\ now < MaxTime
  /\ now' = now + 1
  /\ UNCHANGED <<extValue, ledgerVars, last, storage, flow, app, accepted>>

\* The invocations that run in the client specification, and the other
\* contributor, who submits while they run.
ClientFlows == {"f1"}
Contributor == "bob"

NextClient ==
  \/ \E s \in Subjects, i \in Inputs : submitEncryptedScore(Contributor, s, i)
  \/ \E f \in ClientFlows, t \in Subjects : GA_Grant(f, t)
  \/ \E f \in ClientFlows : GA_Fetch(f)
  \/ \E f \in ClientFlows : GA_LoadOrSign(f)
  \/ \E f \in ClientFlows, approve \in BOOLEAN : GA_Sign(f, approve)
  \/ \E f \in ClientFlows : GA_Decrypt(f)
  \/ Tick

SpecClient == Init /\ [][NextClient]_vars

\* The client with a cache that has been in use: it holds the grant bob
\* signed when the App ran under his account, the grant alice signed for the
\* earlier deployment, and possibly a grant alice signed at time 0.
UsedCaches ==
  { [k \in CacheKeys |->
       IF k = CacheKey("bob", {Engine}) THEN Grant("bob", {Engine}, 0, DurationDays)
       ELSE IF k = CacheKey(AppUser, {"RatingNetV0"})
         THEN Grant(AppUser, {"RatingNetV0"}, 0, DurationDays)
       ELSE IF k = CacheKey(AppUser, {Engine}) THEN g
       ELSE NoGrant] : g \in {NoGrant, Grant(AppUser, {Engine}, 0, DurationDays)} }

InitCache ==
  /\ extValue \in ScoreChoices
  /\ InitLedger
  /\ now = 0
  /\ storage \in UsedCaches
  /\ flow = [f \in Flows |-> IdleFlow]
  /\ app = [status |-> "", avgHandle |-> Nil, avgClear |-> NoClear]
  /\ accepted = {}

SpecCache == InitCache /\ [][NextClient]_vars

\* The client, whose grant transaction can also fail.
NextFlow ==
  \/ NextClient
  \/ \E f \in ClientFlows : GA_GrantRejected(f, "subjA")

SpecFlow == Init /\ [][NextFlow]_vars

\* Two invocations of getAverage under way at once in the App (the button
\* stays enabled while one runs), both about one subject.
NextRace ==
  \/ \E f \in Flows : GA_Grant(f, "subjA")
  \/ \E f \in Flows : GA_Fetch(f)
  \/ \E f \in Flows : GA_LoadOrSign(f)
  \/ \E f \in Flows, approve \in BOOLEAN : GA_Sign(f, approve)
  \/ \E f \in Flows : GA_Decrypt(f)
  \/ Tick

SpecRace == Init /\ [][NextRace]_vars

\* Every operation on one subject: ratings, the client's invocations, the
\* passing of time and the two reads.
NextOps ==
  \/ \E i \in Inputs : submitEncryptedScore(Contributor, "subjA", i)
  \/ \E f \in ClientFlows : GA_Grant(f, "subjA")
  \/ \E f \in ClientFlows : GA_Fetch(f)
  \/ \E f \in ClientFlows : GA_LoadOrSign(f)
  \/ \E f \in ClientFlows, approve \in BOOLEAN : GA_Sign(f, approve)
  \/ \E f \in ClientFlows : GA_Decrypt(f)
  \/ Tick
  \/ getEncryptedSum("subjA")
  \/ getCount("subjA")

SpecOps == Init /\ [][NextOps]_vars

(***************************************************************************)
(* Properties.                                                             *)
(***************************************************************************)
\* min(max(s, 1), 5) on integers.
ClampInt(s) == IF s < 1 THEN 1 ELSE IF s > 5 THEN 5 ELSE s

\* The sum of the clamped cleartexts of the external ciphertexts in seq.
RECURSIVE SumClamped(_)
SumClamped(seq) ==
  IF seq = <<>> THEN 0 ELSE ClampInt(extValue[Head(seq)]) + SumClamped(Tail(seq))

\* The step is a submission that succeeded.
IsSubmitStep == submitted' # submitted

\* C1: for every raw score s in 0 .. 255, a successful submit adds
\* min(max(s, 1), 5), a value of 1 .. 5, to the decrypted sum of its subject.
C1_ClampedContribution ==
  [][IsSubmitStep =>
       LET subject == last'.subject
           s       == extValue[last'.input]
           added   == ToInt(Clear(statsBySubject'[subject].sum))
                        - ToInt(Clear(statsBySubject[subject].sum))
       IN  added = ClampInt(s) /\ added \in 1 .. 5]_vars

\* A submission of an out-of-range score (0, or 6 and more) has been added.
C1_Witness ==
  /\ last.op = "submit" /\ last.err = ""
  /\ extValue[last.input] \in {0, 6, 255}
  /\ Clear(statsBySubject[last.subject].sum) # U32(0)

ExactAverage(st) ==
  IF st.count = U32(0)
    THEN U32(0)
    ELSE BigDiv(BigMulLimb(Clear(st.sum), SCALE), st.count)

\* C3: the handle getEncryptedAverage returns decrypts to 0 when count is
\* 0 and to exactly floor(sum * 100 / count) when count > 0, sum and count
\* being the current Stats of the subject.
C3_AverageIsExactFloor ==
  last.op = "average" => Clear(last.ret) = ExactAverage(statsBySubject[last.subject])

\* The number of contributions folded into a sum handle.
RECURSIVE Contributions(_)
Contributions(h) == IF h.op = "add" THEN Contributions(h.args[1]) + 1 ELSE 0

\* C7: in every state, and so in every state query_sum, query_count or
\* query_average reads, the count of a subject is the number of contributions
\* folded into its sum: no submission is in one and not in the other.
C7_SumAndCountTogether ==
  /\ \A s \in Subjects :
       statsBySubject[s].count = U32(Contributions(statsBySubject[s].sum))
  /\ last.op = "sum" => last.ret = statsBySubject[last.subject].sum
  /\ last.op = "count" => last.n = statsBySubject[last.subject].count

\* A read of the count right after submissions to the subject.
C7_Witness ==
  /\ last.op = "count"
  /\ last.n = U32(2)
  /\ Contributions(statsBySubject[last.subject].sum) = 2

\* Scores a contributor could have encrypted instead of its own.
AltScores == {0, 1, 3, 5, 6, 255}

\* The external cleartexts of the run in which ciphertext i holds v instead.
OtherRun(i, v) == [extValue EXCEPT ![i] = v]

\* No step of the ledger or of the client reads a cleartext to decide what
\* it does: two runs of the same operations that differ in the value behind
\* one external ciphertext go through the same handles and the same ACL, and
\* differ only in what the handles decrypt to.  The handles a principal can
\* have decrypted are those it holds an allow entry for.

C8_FailedSubmitChangesNothing ==
  [][(last'.op = "submit" /\ last'.err # "")
       => (statsBySubject' = statsBySubject /\ acl' = acl)]_vars

\* A submit failed on its proof, and one failed later, on a ledger that
\* holds ratings and permissions.
C8_Witness ==
  /\ last.op = "submit" /\ last.err = "Reverted"
  /\ statsBySubject[last.subject].count # U32(0)
  /\ \E e \in acl : e[2] # Engine

\* C9: a query_average of a subject returns a handle that decrypts to what
\* the first query_average since the last submit to that subject returned,
\* whoever calls and whatever happened to other subjects in between.
C9_RepeatedAverageSame ==
  last.op = "average" => Clear(last.ret) = avgSeen[last.subject]

\* bob queries the average of a rated subject that alice queried before him
\* (her permission is on the handle he gets), the other subject having been
\* rated in between.
C9_Witness ==
  /\ last.op = "average" /\ last.sender = "bob"
  /\ statsBySubject[last.subject].count # U32(0)
  /\ <<last.ret, "alice">> \in acl
  /\ \E b \in Subjects : b # last.subject /\ statsBySubject[b].count # U32(0)

\* The Stats a subject has after the submissions seq to it alone.
RECURSIVE Replay(_)
Replay(seq) ==
  IF seq = <<>>
    THEN EmptyStats
    ELSE LET before == [s \in {"only"} |-> Replay(SubSeq(seq, 1, Len(seq) - 1))]
         IN  StatsAfterSubmit(before, "only", seq[Len(seq)])["only"]

\* C10: a call about subject A leaves the Stats of every other subject
\* unchanged, and under every interleaving each subject's Stats are those
\* its own submissions alone produce.
C10_SubjectsIndependent ==
  [][/\ \A b \in Subjects : b # last'.subject => statsBySubject'[b] = statsBySubject[b]
     /\ \A s \in Subjects : statsBySubject'[s] = Replay(submitted'[s])]_vars

\* Both subjects have been rated, one after the other.
C10_Witness ==
  /\ Len(submitted["subjA"]) >= 1 /\ Len(submitted["subjB"]) >= 1
  /\ statsBySubject["subjA"] # statsBySubject["subjB"]

\* The step is the decrypt request of invocation f.
IsDecryptStep(f) == flow[f].pc = "signed" /\ flow'[f].pc = "idle"

C6_ExpiredGrantRejected ==
  [][\A f \in Flows :
       (IsDecryptStep(f) /\ Expired(flow[f].sig, now))
         => flow'[f].outcome = "GrantExpired" /\ flow'[f].res = NoClear]_vars

\* A request was answered GrantExpired with a grant the oracle had accepted
\* before, which is still the one in the cache, for a handle its user may
\* decrypt.
C6_Witness ==
  \E f \in Flows :
    /\ flow[f].pc = "idle" /\ flow[f].outcome = "GrantExpired"
    /\ flow[f].sig \in accepted
    /\ storage[CacheKey(AppUser, {Engine})] = flow[f].sig
    /\ <<flow[f].handle, AppUser>> \in acl

\* The step is a submitEncryptedScore to subject s that ran to its end.
IsSubmitTo(s) == submitted'[s] # submitted[s]

\* C11: when a subject's count is 2^32 - 1, one further submit is possible,
\* ends without error and leaves count = 0, and the sum receives the
\* clamped contribution (modulo 2^32, as every 32-bit sum).
C11_CountWrapsToZero ==
  [][\A s \in Subjects :
       statsBySubject[s].count = MaxCount
         => /\ TotalSubmitted < MaxSubmits
                 => \A i \in Inputs : ENABLED submitEncryptedScore(Owner(i), s, i)
            /\ IsSubmitTo(s)
                 => /\ last'.op = "submit" /\ last'.err = ""
                    /\ statsBySubject'[s].count = U32(0)
                    /\ ClearWith(statsBySubject'[s].sum, extValue)
                         = Add32(Clear(statsBySubject[s].sum),
                                 U32(ClampInt(extValue[last'.input])))]_vars

\* A submit to the full subject has just ended without error and its
\* count is 0.
C11_Witness ==
  /\ last.op = "submit" /\ last.err = "" /\ last.subject = "subjA"
  /\ Len(submitted["subjA"]) = 1
  /\ statsBySubject["subjA"].count = U32(0)
  /\ Clear(statsBySubject["subjA"].sum) # Clear(FullStats.sum)

\* C12 as stated: across every transition the count of every subject
\* after it is greater than or equal to the count before it.
C12_CountNeverDecreases ==
  [][\A s \in Subjects :
       Leq32(statsBySubject[s].count, statsBySubject'[s].count)]_vars

\* C12, amended: across every transition the count of every subject after
\* it is greater than or equal to the count before it, except that a
\* submit to a subject whose count is 2^32 - 1 leaves its count 0.
C12_CountDecreasesOnlyByWrap ==
  [][\A s \in Subjects :
       \/ Leq32(statsBySubject[s].count, statsBySubject'[s].count)
       \/ /\ statsBySubject[s].count = MaxCount
          /\ statsBySubject'[s].count = U32(0)
          /\ IsSubmitTo(s)]_vars

\* The full subject has wrapped and then been rated once more, and the
\* other subject has been left alone.
C12_Witness ==
  /\ Len(submitted["subjA"]) = 2
  /\ statsBySubject["subjA"].count = U32(1)
  /\ statsBySubject["subjB"].count = U32(0)

\* C13: after every successful query_average(subject) by p the ACL holds
\* allow entries on the returned handle for p and for the engine, also when
\* the subject's count is 0; a decrypt request of p for that handle under an
\* unexpired grant of p is then not refused.
C13_AverageGrantsCallerAndEngine ==
  (last.op = "average" /\ last.err = "")
    => /\ <<last.ret, last.sender>> \in acl
       /\ <<last.ret, Engine>> \in acl
       /\ UserDecrypt({last.ret}, Grant(last.sender, {Engine}, now, DurationDays),
                      acl, now).err = ""

\* bob has queried the average of a subject nobody rated.
C13_Witness ==
  /\ last.op = "average" /\ last.sender = "bob"
  /\ statsBySubject[last.subject].count = U32(0)
  /\ last.ret = FHE_asEuint32(0)
  /\ <<last.ret, "bob">> \in acl

\* C14: the ACL is append-only: an allow entry that holds in a state holds
\* in every later state; no submit, query_average, query_sum, query_count,
\* decrypt request or passing of time (a grant expiring) removes one.
C14_AclAppendOnly ==
  [][acl \subseteq acl']_vars

\* A grant has expired and been refused, ratings have come in after the
\* viewer's permission, and the viewer's and the engine's earlier entries
\* are all there.
C14_Witness ==
  /\ \E f \in Flows : flow[f].outcome = "GrantExpired" /\ Expired(storage[CacheKey(AppUser, {Engine})], now)
  /\ \E e \in acl : e[2] = AppUser /\ e[1] # AverageHandle(statsBySubject["subjA"])
  /\ \E e \in acl : e[2] = Engine /\ e[1].op = "add"
                                   /\ e[1] # statsBySubject["subjA"].sum

\* The step is a query_sum or a query_count.
IsReadStep == last' # last /\ last'.op \in {"sum", "count"}

\* C15: query_sum and query_count are pure reads: they can be called in
\* every state by anyone, they return the subject's stored sum handle and
\* count, and they leave every subject's Stats and the whole ACL as they
\* were; no principal holds an allow entry on the sum handle query_sum
\* returned.
C15_ReadsArePure ==
  [][/\ \A s \in Subjects : ENABLED getEncryptedSum(s) /\ ENABLED getCount(s)
     /\ IsReadStep
          => /\ statsBySubject' = statsBySubject
             /\ acl' = acl
             /\ last'.op = "sum"
                  => /\ last'.ret = statsBySubject[last'.subject].sum
                     /\ \A q \in Principals : <<last'.ret, q>> \notin acl'
             /\ last'.op = "count"
                  => last'.n = statsBySubject[last'.subject].count]_vars

\* The sum of a rated subject has been queried while a user holds the
\* permission on its average.
C15_Witness ==
  /\ last.op = "sum"
  /\ statsBySubject[last.subject].count # U32(0)
  /\ last.ret = statsBySubject[last.subject].sum
  /\ \E q \in Principals : <<AverageHandle(statsBySubject[last.subject]), q>> \in acl

\* The key the App looks up and signs for.
AppKey == CacheKey(AppUser, {Engine})

\* The step is the cache lookup of invocation f.
IsLookupStep(f) == flow[f].pc = "fetched" /\ flow'[f].pc # "fetched"

\* C16 as stated: the grant a decrypt request is made with is unexpired at
\* the time of the request and is one for the current user and contract
\* set.
C16_NoExpiredGrantToDecrypt ==
  [][\A f \in Flows :
       IsDecryptStep(f)
         => /\ ~Expired(flow[f].sig, now)
            /\ flow[f].sig.user = AppUser
            /\ flow[f].sig.contracts = {Engine}]_vars

\* C16, amended: the cache lookup returns a cached grant only if it is
\* unexpired at the time of the lookup and is the entry under the current
\* (user, contract-set) key; when that entry is missing or expired, whatever
\* is cached for another contract set or user, a fresh Signing cycle starts
\* for a grant that begins now; the grant a decrypt request is made with is
\* always one for the current user and contract set.
C16_LookupReusesOnlyUsableGrant ==
  [][\A f \in Flows :
       /\ IsLookupStep(f)
            => IF storage[AppKey] # NoGrant /\ ~Expired(storage[AppKey], now)
                 THEN /\ flow'[f].pc = "signed"
                      /\ flow'[f].sig = storage[AppKey]
                 ELSE /\ flow'[f].pc = "signing"
                      /\ flow'[f].sig = Grant(AppUser, {Engine}, now, DurationDays)
       /\ IsDecryptStep(f)
            => /\ flow[f].sig.user = AppUser
               /\ flow[f].sig.contracts = {Engine}
               /\ flow[f].sig.start <= now]_vars

\* The grant cached under the current key had expired, grants for another
\* user and for another contract set were in the cache, and the invocation
\* went through a Signing cycle to a grant that begins later.
C16_Witness ==
  \E f \in Flows :
    /\ flow[f].pc = "signed"
    /\ flow[f].sig.start > 0
    /\ storage[AppKey] = flow[f].sig
    /\ Grant(AppUser, {Engine}, 0, DurationDays) \in accepted
    /\ storage[CacheKey("bob", {Engine})] # NoGrant
    /\ storage[CacheKey(AppUser, {"RatingNetV0"})] # NoGrant

\* The step ends the Signing cycle of invocation f with a signature.
IsSignedStep(f) == flow[f].pc = "signing" /\ flow'[f].pc = "signed"

\* C17: the Signature Cache is written only on Signing -> Granted, with the
\* grant the user has just signed, under that grant's key; a cache lookup
\* leaves the cache as it was; a declined signature ends the invocation
\* with SignatureDeclined and no grant, and leaves the cache as it was.
C17_CacheWrittenOnlyWhenSigned ==
  [][/\ storage' # storage
          => \E f \in Flows :
               /\ IsSignedStep(f)
               /\ flow[f].sig = Grant(AppUser, {Engine}, flow[f].sig.start, DurationDays)
               /\ storage' = [storage EXCEPT ![AppKey] = flow[f].sig]
     /\ \A f \in Flows :
          /\ IsSignedStep(f) => storage'[AppKey] = flow'[f].sig
          /\ IsLookupStep(f) => storage' = storage
          /\ (flow[f].pc = "signing" /\ flow'[f].pc = "idle")
               => /\ flow'[f].outcome = "SignatureDeclined"
                  /\ flow'[f].sig = NoGrant
                  /\ storage' = storage]_vars

\* The user declined to sign a replacement for the expired grant that the
\* cache holds, and the cache still holds that grant.
C17_Witness ==
  \E f \in Flows :
    /\ flow[f].pc = "idle" /\ flow[f].outcome = "SignatureDeclined"
    /\ storage[AppKey] \in accepted
    /\ Expired(storage[AppKey], now)

\* Invocation f ended on a refused decrypt request.
Refused(f) == flow[f].pc = "idle" /\ flow[f].outcome \in {"Unauthorized", "GrantExpired"}

\* C18: a decrypt request refused with Unauthorized or GrantExpired ends the
\* invocation in a failure state; the only step the client takes from there
\* is the caller's new invocation, which starts over with the grant
\* transaction and no grant in hand; no invocation sends a decrypt request
\* after one of its requests was refused; and a request that follows a
\* GrantExpired is made with another grant than the refused one.
C18_NoAutomaticRetry ==
  [][\A f \in Flows :
       /\ (IsDecryptStep(f) /\ flow'[f].outcome # "ok")
            => /\ Refused(f)'
               /\ app'.status = "Failed to retrieve average: " \o flow'[f].outcome
       /\ (Refused(f) /\ flow'[f] # flow[f])
            => /\ flow'[f].pc = "granted"
               /\ flow'[f].sig = NoGrant /\ flow'[f].handle = Nil
               /\ last'.op = "average" /\ last'.sender = AppUser
               /\ <<last'.ret, AppUser>> \in acl'
       /\ flow[f].pc = "signed" /\ flow'[f] # flow[f]
            => IsDecryptStep(f) /\ flow[f].outcome = ""
       /\ (IsDecryptStep(f) /\ flow[f].refused.err = "GrantExpired")
            => flow[f].sig # flow[f].refused.sig]_vars

\* After a request refused with GrantExpired the caller started again,
\* signed a new grant, and the request made with it was answered.
C18_Witness ==
  \E f \in Flows :
    /\ flow[f].pc = "idle" /\ flow[f].outcome = "ok"
    /\ flow[f].refused.err = "GrantExpired"
    /\ flow[f].sig # flow[f].refused.sig
    /\ flow[f].sig.start > flow[f].refused.sig.start

\* C19: when two invocations run a Signing cycle for the same (user,
\* contract-set) key at once, each signature is saved whole over whatever
\* the key held (last writer wins); once both hold their grant the cache
\* entry of the key is one of the two grants, in full; and the requests
\* made with either grant are answered.
C19_LastWriterWins ==
  [][/\ \A f \in Flows :
          IsSignedStep(f) => storage' = [storage EXCEPT ![AppKey] = flow[f].sig]
     /\ (\A f \in Flows : flow'[f].pc = "signed")
          => storage'[AppKey] \in {flow'[f].sig : f \in Flows}
     /\ \A k \in CacheKeys :
          storage'[k] # NoGrant
            => /\ k = AppKey
               /\ storage'[k] = Grant(AppUser, {Engine}, storage'[k].start, DurationDays)
               /\ storage'[k].start \in 0 .. now]_vars

\* Both invocations went through a Signing cycle at once, for grants that
\* begin at different times; both requests were answered, and the cache
\* holds the grant that begins first, saved last.
C19_Witness ==
  /\ \A f \in Flows : flow[f].pc = "idle" /\ flow[f].outcome = "ok"
                        /\ flow[f].sig \in accepted
  /\ flow["f1"].sig.start < flow["f2"].sig.start
  /\ storage[AppKey] = flow["f1"].sig

\* C20: in getAverage (the grant transaction, then a static call that
\* fetches the handle, then the decrypt request) the handle of the decrypt
\* request has an allow entry for the viewer when the request is made,
\* whatever other contributors submit to the subject between the two calls.
C20_FetchedHandleIsGranted ==
  [][\A f \in Flows :
       IsDecryptStep(f) => <<flow[f].handle, AppUser>> \in acl]_vars

\* The principals (the engine included) that hold an allow entry on h.
PermissionSet(h) == {e[2] : e \in {x \in acl : x[1] = h}}

\* C21: after every successful submit the permission set of the subject's
\* stored sum handle is exactly {engine}: neither the caller nor any viewer
\* that was granted an average handle holds an allow entry on it; and so it
\* stays for the stored sum of every rated subject.
C21_SumHandleEngineOnly ==
  /\ (last.op = "submit" /\ last.err = "")
       => PermissionSet(statsBySubject[last.subject].sum) = {Engine}
  /\ \A s \in Subjects :
       statsBySubject[s].count # U32(0)
         => PermissionSet(statsBySubject[s].sum) = {Engine}

\* alice, who holds the permission on the subject's earlier average, has
\* just submitted its second rating.
C21_Witness ==
  /\ last.op = "submit" /\ last.err = "" /\ last.sender = "alice"
  /\ statsBySubject[last.subject].count = U32(2)
  /\ \E e \in acl : e[2] = "alice" /\ e[1].op = "div"
  /\ \E e \in acl : e[2] = Engine /\ e[1].op = "add"
                                   /\ e[1] # statsBySubject[last.subject].sum

\* C22: query_average changes only the ACL: the stored sum handle and the
\* count of every subject, the queried one included, are after the call
\* what they were before it, and the sum of a subject never written stays
\* uninitialized; the call adds the entries on the handle it returns.
C22_AverageWritesOnlyAcl ==
  [][last'.op = "average"
       => /\ statsBySubject' = statsBySubject
          /\ submitted' = submitted
          /\ statsBySubject[last'.subject].count = U32(0)
               => ~FHE_isInitialized(statsBySubject'[last'.subject].sum)
          /\ acl' = acl \cup {<<last'.ret, last'.sender>>, <<last'.ret, Engine>>}]_vars

\* The average of a subject never written has been queried and added to
\* the ACL, the other subject being rated.
C22_Witness ==
  /\ last.op = "average"
  /\ statsBySubject[last.subject] = EmptyStats
  /\ <<last.ret, last.sender>> \in acl
  /\ \E b \in Subjects : statsBySubject[b].count # U32(0)

\* C23: in every reachable state and for every subject the decrypted sum
\* satisfies count <= sum <= 5 * count, and the average a subject with
\* count > 0 decrypts to lies in 100 .. 500.
C23_SumAndAverageInRange ==
  \A s \in Subjects :
    LET st == statsBySubject[s]
    IN  /\ Leq32(st.count, Clear(st.sum))
        /\ Leq32(Clear(st.sum), BigMulLimb(st.count, FIVE))
        /\ st.count # U32(0)
             => /\ Leq32(U32(SCALE), Clear(AverageHandle(st)))
                /\ Leq32(Clear(AverageHandle(st)), U32(FIVE * SCALE))

\* seq and other submit the same raw scores, each as many times.
SameScores(seq, other) ==
  /\ Len(seq) = Len(other)
  /\ \A i \in Inputs :
       Cardinality({k \in 1 .. Len(seq) : extValue[seq[k]] = extValue[i]})
         = Cardinality({k \in 1 .. Len(other) : extValue[other[k]] = extValue[i]})

\* C24: submissions to one subject commute: the sum, the count and the
\* average the subject decrypts to are those of every other sequence of
\* submissions of the same raw scores, in whatever order and by whichever
\* contributors.
C24_SubmissionsCommute ==
  \A s \in Subjects :
    \A other \in [1 .. Len(submitted[s]) -> Inputs] :
      SameScores(submitted[s], other)
        => LET st == statsBySubject[s]
               r  == Replay(other)
           IN  /\ r.count = st.count
               /\ Clear(r.sum) = Clear(st.sum)
               /\ Clear(AverageHandle(r)) = Clear(AverageHandle(st))

\* A subject was rated 1 by alice and then 5 by bob; the other order leaves
\* another sum handle.
C24_Witness ==
  /\ extValue = <<1, 5>>
  /\ submitted["subjA"] = <<1, 2>>
  /\ Replay(<<2, 1>>).sum # statsBySubject["subjA"].sum
  /\ Clear(statsBySubject["subjA"].sum) = U32(6)

\* The order of the steps of one invocation of getAverage.
FlowEdges ==
  { <<"idle", "granted">>, <<"granted", "fetched">>, <<"fetched", "signed">>,
    <<"fetched", "signing">>, <<"signing", "signed">>, <<"signing", "idle">>,
    <<"signed", "idle">> }

\* C25: in getAverage the decrypt request is made only after the grant
\* transaction was confirmed and with a Grant in hand: the invocation moves
\* on only from a confirmed transaction, through the fetch and the grant, to
\* the request; when the transaction fails or the signature is declined the
\* invocation ends there, no decrypt request is made and nothing is signed
\* again until the caller starts a new invocation.
C25_DecryptOnlyAfterGrant ==
  [][/\ \A f \in Flows :
          /\ flow'[f].pc # flow[f].pc => <<flow[f].pc, flow'[f].pc>> \in FlowEdges
          /\ (flow[f].pc = "idle" /\ flow'[f].pc = "granted")
               => /\ last'.op = "average" /\ last'.err = ""
                  /\ last'.sender = AppUser /\ last'.subject = flow'[f].target
                  /\ <<last'.ret, AppUser>> \in acl'
          /\ (flow[f].pc = "idle" /\ flow'[f].pc = "idle" /\ flow'[f] # flow[f])
               => /\ flow'[f].outcome = "TxFailed"
                  /\ acl' = acl /\ storage' = storage
          /\ IsDecryptStep(f)
               => flow[f].sig = Grant(AppUser, {Engine}, flow[f].sig.start, DurationDays)
          /\ (flow[f].pc = "signing" /\ flow'[f].pc = "idle")
               => /\ flow'[f].outcome = "SignatureDeclined"
                  /\ flow'[f].sig = NoGrant /\ flow'[f].res = NoClear
                  /\ app'.status = "Signature creation failed. Please try again."
     /\ (accepted' # accepted \/ app'.avgClear # app.avgClear)
          => \E f \in Flows : IsDecryptStep(f)]_vars

\* The transaction was confirmed and the handle fetched, the user declined
\* to sign, nothing is cached and no decrypt request has ever been answered.
C25_Witness ==
  \E f \in Flows :
    /\ flow[f].pc = "idle" /\ flow[f].outcome = "SignatureDeclined"
    /\ <<flow[f].handle, AppUser>> \in acl
    /\ flow[f].sig = NoGrant /\ flow[f].res = NoClear
    /\ accepted = {} /\ app.avgClear = NoClear
    /\ \A k \in CacheKeys : storage[k] = NoGrant

====
